---- MODULE Spec2Model ----
(***************************************************************************)
(* pinecone-client: the request/response shaping of PineconeClient         *)
(* (src/src/pinecone-client.ts), its null sanitizer (utils.ts, kept as     *)
(* src/unnamed/part_001) and the error translation of the ky instance      *)
(* (src/src/fetch-api.ts).                                                 *)
(*                                                                         *)
(* JavaScript values are tagged records.  An object is a function from its *)
(* own keys to values; an array is a sequence whose deleted elements are   *)
(* holes.  A number is the exact fraction n/d (floating-point rounding is  *)
(* not modelled).  An async method runs atomically up to its next await.   *)
(***************************************************************************)
EXTENDS Integers, Sequences, FiniteSets, TLC

VARIABLES
  client,   \* the PineconeClient instance: apiKey, baseUrl, namespace
  calls,    \* per caller: the method call in progress and the caller's params
  net       \* every HTTP request issued, in issue order

vars == <<client, calls, net>>

(***************************************************************************)
(* JavaScript values                                                       *)
(***************************************************************************)
Undefined == [t |-> "undefined"]
Null == [t |-> "null"]
Hole == [t |-> "hole"]
True == [t |-> "bool", b |-> TRUE]
False == [t |-> "bool", b |-> FALSE]
Frac(n, d) == [t |-> "num", n |-> n, d |-> d]
Num(n) == Frac(n, 1)
Str(s) == [t |-> "str", s |-> s]
Obj(f) == [t |-> "obj", f |-> f]
Arr(e) == [t |-> "arr", e |-> e]

EmptyObj == Obj([k \in {} |-> Undefined])

\* obj[k] for an own key, undefined otherwise
Get(obj, k) == IF obj.t = "obj" /\ k \in DOMAIN obj.f THEN obj.f[k] ELSE Undefined

\* the elements of an array, none for any other value
Elements(v) == IF v.t = "arr" THEN v.e ELSE <<>>

\* { ...f, ...g }
Spread(f, g) == [k \in DOMAIN f \cup DOMAIN g |-> IF k \in DOMAIN g THEN g[k] ELSE f[k]]

\* the rest of a destructuring that names the keys ks
Rest(f, ks) == [k \in DOMAIN f \ ks |-> f[k]]

\* typeof v == 'object' for a value that is not null
TypeofObject(v) == v.t \in {"obj", "arr"}

\* ToBoolean(v)
Truthy(v) ==
  CASE v.t \in {"undefined", "null", "hole"} -> FALSE
    [] v.t = "bool" -> v.b
    [] v.t = "num" -> v.n # 0
    [] v.t = "str" -> v.s # ""
    [] OTHER -> TRUE

NumLt(a, b) == a.n * b.d < b.n * a.d
NumGe(a, b) == a.n * b.d >= b.n * a.d
NumMul(a, b) == Frac(a.n * b.n, a.d * b.d)
OneMinus(a) == Frac(a.d - a.n, a.d)

Min(a, b) == IF a < b THEN a ELSE b
Max(a, b) == IF a > b THEN a ELSE b

\* a slice that stops one element short
SliceShort(s, start, end) ==
  LET len == Len(s)
      k == IF start < 0 THEN Max(len + start, 0) ELSE Min(start, len)
      final == IF end < 0 THEN Max(len + end, 0) ELSE Min(end, len)
  IN SubSeq(s, k + 1, final - 1)

\* Array.prototype.slice(start, end)
Slice(s, start, end) ==
  LET len == Len(s)
      k == IF start < 0 THEN Max(len + start, 0) ELSE Min(start, len)
      final == IF end < 0 THEN Max(len + end, 0) ELSE Min(end, len)
  IN SubSeq(s, k + 1, final)

(***************************************************************************)
(* utils.ts: the null sanitizer                                            *)
(***************************************************************************)
\* a sanitizer that does not descend into nested values
removeNullValuesTopLevelOnly(obj) ==
  IF obj.t = "obj"
  THEN Obj([k \in {j \in DOMAIN obj.f : obj.f[j] # Null} |-> obj.f[k]])
  ELSE obj

\* a sanitizer that works one level per pass: null-valued keys go, and a
\* nested mapping whose every field is null is itself set to null
removeNullValuesCollapsing(obj) ==
  IF obj.t = "obj"
  THEN Obj([k \in {j \in DOMAIN obj.f : obj.f[j] # Null} |->
              IF obj.f[k].t = "obj" /\ DOMAIN obj.f[k].f # {}
                 /\ \A j \in DOMAIN obj.f[k].f : obj.f[k].f[j] = Null
              THEN Null ELSE obj.f[k]])
  ELSE obj

RECURSIVE removeNullValuesFromObject(_)
\* The value obj holds after removeNullValuesFromObject(obj), which works in
\* place and returns obj.  for-in visits the own keys of an object and the
\* indices of an array; delete on an array index leaves a hole.
removeNullValuesFromObject(obj) ==
  IF obj.t = "obj"
  THEN Obj([k \in {j \in DOMAIN obj.f : obj.f[j] # Null} |->
              IF TypeofObject(obj.f[k])
              THEN removeNullValuesFromObject(obj.f[k])
              ELSE obj.f[k]])
  ELSE IF obj.t = "arr"
  THEN Arr([i \in DOMAIN obj.e |->
              IF obj.e[i] = Null THEN Hole
              ELSE IF TypeofObject(obj.e[i])
              THEN removeNullValuesFromObject(obj.e[i])
              ELSE obj.e[i]])
  ELSE obj

SanitizedKeys == {"filter", "metadata", "setMetadata"}

\* a sanitizer that leaves setMetadata as the caller gave it
removeNullValuesButSetMetadata(obj) ==
  IF obj = Undefined THEN Undefined
  ELSE Obj(Spread([k \in SanitizedKeys |->
                     IF k = "setMetadata" THEN Get(obj, k)
                     ELSE removeNullValuesFromObject(Get(obj, k))],
                  Rest(obj.f, SanitizedKeys)))

\* a sanitizer of the whole payload
removeNullValuesEverywhere(obj) ==
  IF obj = Undefined THEN Undefined
  ELSE Obj(Spread([k \in SanitizedKeys |-> Undefined],
                  removeNullValuesFromObject(obj).f))

\* The new object removeNullValues(obj) returns.
removeNullValues(obj) ==
  IF obj = Undefined THEN Undefined
  ELSE Obj(Spread([k \in SanitizedKeys |-> removeNullValuesFromObject(Get(obj, k))],
                  Rest(obj.f, SanitizedKeys)))

\* The caller's obj after removeNullValues(obj): obj.filter, obj.metadata and
\* obj.setMetadata are the very objects the sanitizer worked on.
AfterRemoveNullValues(obj) ==
  IF obj.t # "obj" THEN obj
  ELSE Obj([k \in DOMAIN obj.f |->
              IF k \in SanitizedKeys THEN removeNullValuesFromObject(obj.f[k])
              ELSE obj.f[k]])

(***************************************************************************)
(* The request body as transmitted: JSON.stringify drops the keys whose    *)
(* value is undefined and writes null for an array's holes.                *)
(***************************************************************************)
RECURSIVE Wire(_)
Wire(v) ==
  IF v.t = "obj"
  THEN Obj([k \in {j \in DOMAIN v.f : v.f[j] # Undefined} |-> Wire(v.f[k])])
  ELSE IF v.t = "arr"
  THEN Arr([i \in DOMAIN v.e |->
              IF v.e[i] \in {Hole, Undefined} THEN Null ELSE Wire(v.e[i])])
  ELSE v

(***************************************************************************)
(* fetch-api.ts: the ky instance and its beforeError hook                  *)
(***************************************************************************)
NoError == [name |-> "none"]

\* ky's HTTPError for a non-2xx response
HTTPError(response) == [name |-> "HTTPError", response |-> response]

\* fetch's own failure: there is no response, and ky runs no beforeError hook
TransportFailure == [name |-> "TypeError"]

PineconeError(message, opts) ==
  [name |-> "PineconeError", message |-> message, code |-> opts.code,
   status |-> opts.status,
   details |-> IF Truthy(opts.details) THEN opts.details ELSE Undefined,
   cause |-> opts.cause]

\* a hook that takes any message field, whatever its value
beforeErrorAnyMessage(error) ==
  LET response == error.response
      body == response.body.json
  IN IF response.body.kind = "json" /\ body.t = "obj" /\ "message" \in DOMAIN body.f
     THEN PineconeError(Get(body, "message"),
                        [code |-> Get(body, "code"), details |-> Get(body, "details"),
                         status |-> response.status, cause |-> error])
     ELSE error

\* What the hook returns for error; response.body is null for a response
\* without a body; response.clone().json() throws on text that is no JSON,
\* and body.message throws on a JSON null: the catch logs and falls through.
beforeError(error) ==
  LET response == error.response
      body == response.body.json
  IN IF response.body.kind = "json" /\ body # Null /\ Truthy(Get(body, "message"))
     THEN PineconeError(Get(body, "message"),
                        [code |-> Get(body, "code"), details |-> Get(body, "details"),
                         status |-> response.status, cause |-> error])
     ELSE error

\* no response (yet)
NoResponse == [status |-> 0, body |-> [kind |-> "none"]]

\* A request of a ky instance with the given prefixUrl; every instance made
\* from the client's carries the Api-Key header of createApiInstance.
ApiRequest(c, prefixUrl, method, path, json, searchParams) ==
  [call |-> c, prefixUrl |-> prefixUrl, apiKey |-> client.apiKey,
   method |-> method, path |-> path, json |-> json, searchParams |-> searchParams,
   state |-> "inflight", reply |-> Undefined,
   response |-> NoResponse, thrown |-> NoError]

\* api.post(path, {json}) of the client's instance: prefixUrl is baseUrl
Request(c, method, path, json) ==
  ApiRequest(c, client.baseUrl, method, path, json, <<>>)

(***************************************************************************)
(* pinecone-client.ts                                                      *)
(***************************************************************************)
\* given || fallback
Resolve(given, fallback) == IF Truthy(given) THEN given ELSE fallback

ConfigError(message) == [name |-> "Error", message |-> message]

\* a constructor that asks for the API key only
NewPineconeClientNoUrlCheck(config, env) ==
  LET apiKey == Resolve(Get(config, "apiKey"), Get(env, "PINECONE_API_KEY"))
      baseUrl == Resolve(Get(config, "baseUrl"), Get(env, "PINECONE_BASE_URL"))
  IN IF ~Truthy(apiKey)
     THEN [state |-> "failed", thrown |-> ConfigError("Missing Pinecone API key. Please provide one in the config or set the PINECONE_API_KEY environment variable."),
           apiKey |-> "", baseUrl |-> "", namespace |-> Undefined,
           config |-> config, env |-> env]
     ELSE [state |-> "constructed", thrown |-> NoError,
           apiKey |-> apiKey.s, baseUrl |-> IF baseUrl.t = "str" THEN baseUrl.s ELSE "",
           namespace |-> Get(config, "namespace"), config |-> config, env |-> env]

\* new PineconeClient(config) in a process with the environment env: the
\* client constructed, or the error thrown.  config and env are kept for
\* reference; state, thrown, config and env are no fields of the instance.
NewPineconeClient(config, env) ==
  LET apiKey == Resolve(Get(config, "apiKey"), Get(env, "PINECONE_API_KEY"))
      baseUrl == Resolve(Get(config, "baseUrl"), Get(env, "PINECONE_BASE_URL"))
  IN IF ~Truthy(apiKey)
     THEN [state |-> "failed", thrown |-> ConfigError("Missing Pinecone API key. Please provide one in the config or set the PINECONE_API_KEY environment variable."),
           apiKey |-> "", baseUrl |-> "", namespace |-> Undefined,
           config |-> config, env |-> env]
     ELSE IF ~Truthy(baseUrl)
     THEN [state |-> "failed", thrown |-> ConfigError("Missing Pinecone base URL. Please provide one in the config or set the PINECONE_BASE_URL environment variable."),
           apiKey |-> "", baseUrl |-> "", namespace |-> Undefined,
           config |-> config, env |-> env]
     ELSE [state |-> "constructed", thrown |-> NoError,
           apiKey |-> apiKey.s, baseUrl |-> baseUrl.s,
           namespace |-> Get(config, "namespace"), config |-> config, env |-> env]

\* no client yet, in a process with the environment env
NoClient(env) ==
  [state |-> "none", thrown |-> NoError, apiKey |-> "", baseUrl |-> "",
   namespace |-> Undefined, config |-> Undefined, env |-> env]

Construct(config) ==
  /\ client.state = "none"
  /\ client' = NewPineconeClient(config, client.env)
  /\ UNCHANGED <<calls, net>>

\* The callers of the one client; a caller has at most one call in progress.
CallIds == {1, 2}

IdleCall ==
  [op |-> "none", pc |-> "idle", arg |-> Undefined, params |-> Undefined,
   req |-> 0, i |-> 0, batchSize |-> 0, minScore |-> Undefined,
   result |-> Undefined, error |-> NoError]

\* { namespace: this.namespace, ...removeNullValues(params) }
NamespacedBody(params) ==
  LET clean == removeNullValues(params)
  IN Obj(Spread([k \in {"namespace"} |-> client.namespace],
                IF clean = Undefined THEN <<>> ELSE clean.f))

\* A call that issues one request and awaits it.
Issue(c, op, params, path, json) ==
  /\ calls[c].pc = "idle"
  /\ calls' = [calls EXCEPT ![c] =
                 [IdleCall EXCEPT !.op = op, !.pc = "await", !.arg = params,
                                  !.params = AfterRemoveNullValues(params),
                                  !.req = Len(net) + 1]]
  /\ net' = Append(net, Request(c, "POST", path, json))
  /\ UNCHANGED client

Delete(c, params) ==
  Issue(c, "delete", params, "vectors/delete", NamespacedBody(params))

DescribeIndexStats(c, params) ==
  Issue(c, "describeIndexStats", params, "describe_index_stats", removeNullValues(params))

Update(c, params) ==
  Issue(c, "update", params, "vectors/update", NamespacedBody(params))

\* search parameters that name every id once
FetchSearchParamsUnique(params) ==
  LET ids == Get(params, "ids").e
      firsts == SelectSeq([i \in DOMAIN ids |-> <<i, ids[i]>>],
                          LAMBDA p : \A j \in 1..(p[1] - 1) : ids[j] # p[2])
  IN (IF Truthy(client.namespace) THEN <<<<"namespace", client.namespace>>>> ELSE <<>>)
       \o [i \in DOMAIN firsts |-> <<"ids", firsts[i][2]>>]

\* The search parameters of fetch: namespace first when it is truthy, then
\* one ids entry per element of params.ids, in forEach order.
FetchSearchParams(params) ==
  (IF Truthy(client.namespace) THEN <<<<"namespace", client.namespace>>>> ELSE <<>>)
    \o [i \in DOMAIN Get(params, "ids").e |-> <<"ids", Get(params, "ids").e[i]>>]

Fetch(c, params) ==
  /\ calls[c].pc = "idle"
  /\ calls' = [calls EXCEPT ![c] =
                 [IdleCall EXCEPT !.op = "fetch", !.pc = "await", !.arg = params,
                                  !.params = params, !.req = Len(net) + 1]]
  /\ net' = Append(net, ApiRequest(c, client.baseUrl, "GET", "vectors/fetch",
                                    Undefined, FetchSearchParams(params)))
  /\ UNCHANGED client

\* `https://controller.${environment}.pinecone.io`
ControllerUrl(environment) == "https://controller." \o environment.s \o ".pinecone.io"

\* a createIndex that re-points the client's own instance at the controller
CreateIndexOnClientInstance(c, params) ==
  /\ calls[c].pc = "idle"
  /\ calls' = [calls EXCEPT ![c] =
                 [IdleCall EXCEPT !.op = "createIndex", !.pc = "await", !.arg = params,
                                  !.params = params, !.req = Len(net) + 1]]
  /\ net' = Append(net, ApiRequest(c, ControllerUrl(Get(params, "environment")), "POST",
                                    "databases", Obj(Rest(params.f, {"environment"})),
                                    <<>>))
  /\ client' = [client EXCEPT !.baseUrl = ControllerUrl(Get(params, "environment"))]

\* createIndex: this.api.extend makes a new instance for the one request and
\* leaves this.api as it is; the body is params without environment.
CreateIndex(c, params) ==
  /\ calls[c].pc = "idle"
  /\ calls' = [calls EXCEPT ![c] =
                 [IdleCall EXCEPT !.op = "createIndex", !.pc = "await", !.arg = params,
                                  !.params = params, !.req = Len(net) + 1]]
  /\ net' = Append(net, ApiRequest(c, ControllerUrl(Get(params, "environment")), "POST",
                                    "databases", Obj(Rest(params.f, {"environment"})),
                                    <<>>))
  /\ UNCHANGED client

\* deleteIndex: a DELETE of `databases/${name}` on an instance of its own
DeleteIndex(c, params) ==
  /\ calls[c].pc = "idle"
  /\ calls' = [calls EXCEPT ![c] =
                 [IdleCall EXCEPT !.op = "deleteIndex", !.pc = "await", !.arg = params,
                                  !.params = params, !.req = Len(net) + 1]]
  /\ net' = Append(net, ApiRequest(c, ControllerUrl(Get(params, "environment")), "DELETE",
                                    "databases/" \o Get(params, "name").s, Undefined,
                                    <<>>))
  /\ UNCHANGED client

\* a normalizer that refuses the ends of [0, 1]
hybridScoreNormOpenRange(dense, sparse, alpha) ==
  IF ~NumLt(Num(0), alpha) \/ ~NumLt(alpha, Num(1))
  THEN [thrown |-> TRUE, values |-> Undefined, sparseValues |-> Undefined,
        dense |-> dense, sparse |-> sparse]
  ELSE [thrown |-> FALSE, dense |-> dense, sparse |-> sparse,
        values |-> Arr([i \in DOMAIN dense.e |-> NumMul(dense.e[i], alpha)]),
        sparseValues |->
          Obj([indices |-> Get(sparse, "indices"),
               values |-> Arr([i \in DOMAIN Get(sparse, "values").e |->
                                 NumMul(Get(sparse, "values").e[i], OneMinus(alpha))])])]

\* The outcome of hybridScoreNorm: thrown, or the weighted pair, and the
\* arguments dense and sparse as the call leaves them (map builds new
\* arrays).  The sparse indices are the caller's array itself.
hybridScoreNorm(dense, sparse, alpha) ==
  IF NumLt(alpha, Num(0)) \/ NumLt(Num(1), alpha)
  THEN [thrown |-> TRUE, values |-> Undefined, sparseValues |-> Undefined,
        dense |-> dense, sparse |-> sparse]
  ELSE [thrown |-> FALSE, dense |-> dense, sparse |-> sparse,
        values |-> Arr([i \in DOMAIN dense.e |-> NumMul(dense.e[i], alpha)]),
        sparseValues |->
          Obj([indices |-> Get(sparse, "indices"),
               values |-> Arr([i \in DOMAIN Get(sparse, "values").e |->
                                 NumMul(Get(sparse, "values").e[i], OneMinus(alpha))])])]

ValidationError(message) == [name |-> "Error", message |-> message]

\* if (hybridAlpha): a weight of 0 is taken as not given
HybridRequestedIfTruthy(params) == Truthy(Get(params, "hybridAlpha"))

\* hybridAlpha != undefined
HybridRequested(params) == Get(params, "hybridAlpha") \notin {Undefined, Null}

\* !vector || !sparseVector
HybridIncomplete(params) ==
  ~Truthy(Get(params, "vector")) \/ ~Truthy(Get(params, "sparseVector"))

\* restParams as posted: without hybridAlpha and minScore, and with the
\* weighted pair assigned over vector and sparseVector of a hybrid query
QueryRestParams(params) ==
  LET restParams == Rest(params.f, {"hybridAlpha", "minScore"})
      weighted == hybridScoreNorm(Get(params, "vector"), Get(params, "sparseVector"),
                                  Get(params, "hybridAlpha"))
  IN IF HybridRequested(params)
     THEN Obj(Spread(restParams, [vector |-> weighted.values,
                                  sparseVector |-> weighted.sparseValues]))
     ELSE Obj(restParams)

\* The caller's params after the hybrid step of query: vector and
\* sparseVector are as hybridScoreNorm left them.
HybridParamsAfter(params) ==
  LET weighted == hybridScoreNorm(Get(params, "vector"), Get(params, "sparseVector"),
                                  Get(params, "hybridAlpha"))
  IN IF HybridRequested(params)
     THEN Obj(Spread(params.f, [vector |-> weighted.dense,
                                sparseVector |-> weighted.sparse]))
     ELSE params

\* A call that throws before any request: arg as passed, after as left.
Rejected(c, op, arg, after, error) ==
  /\ calls[c].pc = "idle"
  /\ calls' = [calls EXCEPT ![c] =
                 [IdleCall EXCEPT !.op = op, !.pc = "rejected", !.arg = arg,
                                  !.params = after, !.error = error]]
  /\ UNCHANGED <<client, net>>

Query(c, params) ==
  IF HybridRequested(params) /\ HybridIncomplete(params)
  THEN Rejected(c, "query", params, params,
                ValidationError("Hybrid queries require vector and sparseVector parameters."))
  ELSE IF HybridRequested(params)
          /\ hybridScoreNorm(Get(params, "vector"), Get(params, "sparseVector"),
                             Get(params, "hybridAlpha")).thrown
  THEN Rejected(c, "query", params, HybridParamsAfter(params),
                ValidationError("Alpha must be between 0 and 1"))
  ELSE /\ calls[c].pc = "idle"
       /\ calls' = [calls EXCEPT ![c] =
                      [IdleCall EXCEPT !.op = "query", !.pc = "await", !.arg = params,
                                       !.params = AfterRemoveNullValues(HybridParamsAfter(params)),
                                       !.req = Len(net) + 1,
                                       !.minScore = Get(params, "minScore")]]
       /\ net' = Append(net, Request(c, "POST", "query",
                                     NamespacedBody(QueryRestParams(params))))
       /\ UNCHANGED client

\* (r) => r.score > minScore
ScoreFilterStrict(r, minScore) == NumLt(minScore, Get(r, "score"))

\* (r) => r.score >= minScore
ScoreFilter(r, minScore) == NumGe(Get(r, "score"), minScore)

\* lines 170-174: the results as returned for the response's results
QueryReturn(results, minScore) ==
  IF minScore.t = "num"
  THEN Obj(Spread(results.f,
                  [k \in {"matches"} |->
                     Arr(SelectSeq(Get(results, "matches").e,
                                   LAMBDA r : ScoreFilter(r, minScore)))]))
  ELSE results

DefaultBatchSize == 50

\* params.batchSize || 50
UpsertBatchSize(params) ==
  IF Truthy(Get(params, "batchSize")) THEN Get(params, "batchSize").n
  ELSE DefaultBatchSize

\* a loop that takes its vectors from a list the calls share: the list of
\* caller 1 while that caller is in an upsert
UpsertLoopSharedList(c, call, i, issued) ==
  LET source == IF calls[1].op = "upsert" THEN calls[1].params ELSE call.params
      all == Get(source, "vectors").e
      vectors == Slice(all, i, i + call.batchSize)
  IN IF i < Len(all)
     THEN [call |-> [call EXCEPT !.pc = "await", !.i = i, !.req = Len(issued) + 1],
           net |-> Append(issued,
                          Request(c, "POST", "vectors/upsert",
                                  Obj([namespace |-> client.namespace,
                                       vectors |-> Arr([k \in DOMAIN vectors |->
                                                          removeNullValues(vectors[k])])])))]
     ELSE [call |-> [call EXCEPT !.pc = "resolved", !.i = i], net |-> issued]

\* The for loop of upsert, entered at index i with the requests issued so
\* far, up to its next await or its end: the call and the requests after it.
UpsertLoop(c, call, i, issued) ==
  LET all == Get(call.params, "vectors").e
      vectors == Slice(all, i, i + call.batchSize)
      first == Len(Slice(all, 0, i))
      vectorsWithoutMetadataNulls == [k \in DOMAIN vectors |-> removeNullValues(vectors[k])]
      touched == [k \in DOMAIN all |->
                    IF k > first /\ k <= first + Len(vectors)
                    THEN AfterRemoveNullValues(all[k]) ELSE all[k]]
  IN IF i < Len(all)
     THEN [call |-> [call EXCEPT !.pc = "await", !.i = i, !.req = Len(issued) + 1,
                                 !.params = Obj(Spread(call.params.f,
                                                       [vectors |-> Arr(touched)]))],
           net |-> Append(issued,
                          Request(c, "POST", "vectors/upsert",
                                  Obj([namespace |-> client.namespace,
                                       vectors |-> Arr(vectorsWithoutMetadataNulls)])))]
     ELSE [call |-> [call EXCEPT !.pc = "resolved", !.i = i], net |-> issued]

Upsert(c, params) ==
  LET entered == UpsertLoop(c, [IdleCall EXCEPT !.op = "upsert", !.arg = params,
                                                !.params = params,
                                                !.batchSize = UpsertBatchSize(params)],
                            0, net)
  IN /\ calls[c].pc = "idle"
     /\ calls' = [calls EXCEPT ![c] = entered.call]
     /\ net' = entered.net
     /\ UNCHANGED client

\* The awaited request of call c completes with a 2xx response whose JSON is data.
ResponseOk(c, data) ==
  LET call == calls[c]
      completed == [net EXCEPT ![call.req].state = "ok", ![call.req].reply = data]
      resumed == UpsertLoop(c, call, call.i + call.batchSize, completed)
  IN /\ call.pc = "await"
     /\ CASE call.op = "upsert" ->
               /\ calls' = [calls EXCEPT ![c] = resumed.call]
               /\ net' = resumed.net
          [] call.op = "query" ->
               /\ calls' = [calls EXCEPT ![c] =
                             [call EXCEPT !.pc = "resolved",
                                          !.result = QueryReturn(data, call.minScore)]]
               /\ net' = completed
          [] call.op \in {"createIndex", "deleteIndex"} ->
               /\ calls' = [calls EXCEPT ![c] = [call EXCEPT !.pc = "resolved"]]
               /\ net' = completed
          [] OTHER ->
               /\ calls' = [calls EXCEPT ![c] = [call EXCEPT !.pc = "resolved",
                                                             !.result = data]]
               /\ net' = completed
     /\ UNCHANGED client

\* an upsert that logs a failed chunk and goes on with the next
ResponseErrorSwallowed(c, response) ==
  LET call == calls[c]
      thrown == beforeError(HTTPError(response))
      failed == [net EXCEPT ![call.req].state = "failed",
                            ![call.req].response = response,
                            ![call.req].thrown = thrown]
      resumed == UpsertLoop(c, call, call.i + call.batchSize, failed)
  IN /\ call.pc = "await"
     /\ IF call.op = "upsert"
        THEN calls' = [calls EXCEPT ![c] = resumed.call] /\ net' = resumed.net
        ELSE /\ calls' = [calls EXCEPT ![c] = [call EXCEPT !.pc = "rejected",
                                                           !.error = thrown]]
             /\ net' = failed
     /\ UNCHANGED client

\* The awaited request completes with a non-2xx response: ky throws what the
\* beforeError hook returns, and the method rejects with it.
ResponseError(c, response) ==
  LET call == calls[c]
      thrown == beforeError(HTTPError(response))
  IN /\ call.pc = "await"
     /\ calls' = [calls EXCEPT ![c] = [call EXCEPT !.pc = "rejected", !.error = thrown]]
     /\ net' = [net EXCEPT ![call.req].state = "failed",
                            ![call.req].response = response,
                            ![call.req].thrown = thrown]
     /\ UNCHANGED client

\* The awaited request fails without a response.
NetworkError(c) ==
  LET call == calls[c]
  IN /\ call.pc = "await"
     /\ calls' = [calls EXCEPT ![c] = [call EXCEPT !.pc = "rejected",
                                                   !.error = TransportFailure]]
     /\ net' = [net EXCEPT ![call.req].state = "failed",
                            ![call.req].thrown = TransportFailure]
     /\ UNCHANGED client

\* The caller has the outcome of its call and may make the next one.
Return(c) ==
  /\ calls[c].pc \in {"resolved", "rejected"}
  /\ calls' = [calls EXCEPT ![c] = IdleCall]
  /\ UNCHANGED <<client, net>>

(***************************************************************************)
(* Inputs                                                                  *)
(***************************************************************************)
MaxArrLen == 1
MaxVectors == 4
MaxBatch == 3
MaxMatches == 3
AlphaDen == 2

ObjsOver(K, V) == {Obj(f) : f \in UNION {[S -> V] : S \in SUBSET K}}
ArrsOver(V, n) == {Arr(e) : e \in UNION {[1..k -> V] : k \in 0..n}}

\* metadata, filter and setMetadata values: null-valued keys at two depths,
\* arrays with null elements and with mappings that hold a null-valued key
Leaves == {Null, Num(1)}
InnerObjs == ObjsOver({"$eq"}, Leaves)
Arrays == ArrsOver(Leaves \cup ObjsOver({"$eq"}, {Null}), MaxArrLen)
Mappings == ObjsOver({"count", "tags"}, Leaves \cup InnerObjs \cup Arrays)
Payloads == Mappings \cup {Undefined}

Namespaces == {Undefined, Str("test")}

DeleteInputs ==
  {Obj([filter |-> m]) : m \in Payloads}
    \cup {Obj([ids |-> Arr(<<Str("1")>>)]), Obj([deleteAll |-> True]),
          Obj([ids |-> Arr(<<Str("1")>>), deleteAll |-> Null,
               filter |-> Obj([count |-> Null])])}
DescribeInputs == {Undefined} \cup {Obj([filter |-> m]) : m \in Payloads}
UpdateInputs ==
  {Obj([id |-> Str("1"), setMetadata |-> m]) : m \in Payloads}
    \cup {Obj([id |-> Str("1"), values |-> Arr(<<Num(11), Num(11)>>)])}
FilteredQueryInputs == {Obj([topK |-> Num(2), id |-> Str("2"), filter |-> m]) : m \in Payloads}
SingleUpsertInputs ==
  {Obj([vectors |-> Arr(<<Obj([id |-> Str("3"), values |-> Arr(<<Num(3), Num(3)>>),
                               metadata |-> m])>>)]) : m \in Payloads}

NoMatches == Obj([namespace |-> Str("test"), matches |-> Arr(<<>>)])
BadRequest ==
  [status |-> 400,
   body |-> [kind |-> "json", json |-> Obj([code |-> Num(3), message |-> Str("bad")])]]

Init ==
  /\ client \in {[apiKey |-> "key", baseUrl |-> "https://index.pinecone.io",
                  namespace |-> ns] : ns \in Namespaces}
  /\ calls = [c \in CallIds |-> IdleCall]
  /\ net = <<>>

\* The data of a 2xx response to the awaited request of call c.
OkData(c) == IF calls[c].op = "query" THEN NoMatches ELSE EmptyObj

\* Every operation that sanitizes its payload, one call, any payload.
Next ==
  \/ \E p \in DeleteInputs : Delete(1, p)
  \/ \E p \in DescribeInputs : DescribeIndexStats(1, p)
  \/ \E p \in UpdateInputs : Update(1, p)
  \/ \E p \in FilteredQueryInputs : Query(1, p)
  \/ \E p \in SingleUpsertInputs : Upsert(1, p)
  \/ ResponseOk(1, OkData(1))
  \/ ResponseError(1, BadRequest)
  \/ NetworkError(1)

Spec == Init /\ [][Next]_vars

\* upsert: lists of distinct vectors, short ones for every batch size and
\* lists around one and two default batches
UpsertVector(k) ==
  Obj([id |-> Str(ToString(k)), values |-> Arr(<<Num(k), Num(k)>>),
       metadata |-> IF k % 2 = 1 THEN Obj([count |-> Num(k), tags |-> Null])
                    ELSE Obj([count |-> Num(k)])])
VectorCounts ==
  (0..MaxVectors)
    \cup {DefaultBatchSize, DefaultBatchSize + 1, 2 * DefaultBatchSize,
          2 * DefaultBatchSize + 20}
BatchSizes == {Undefined} \cup {Num(b) : b \in 0..MaxBatch}
UpsertInputs ==
  {Obj([vectors |-> Arr([k \in 1..n |-> UpsertVector(k)]), batchSize |-> b]) :
     n \in VectorCounts, b \in BatchSizes}

NextUpsert ==
  \/ \E p \in UpsertInputs : Upsert(1, p)
  \/ ResponseOk(1, EmptyObj)
  \/ ResponseError(1, BadRequest)
  \/ NetworkError(1)

SpecUpsert == Init /\ [][NextUpsert]_vars

\* upsert with any integer batchSize, every request completing: the loop is
\* followed for at most MaxLoop requests, one more than the longest list
\* needs with a positive batchSize
MaxLoop == MaxVectors + 2
AnyBatchSizes == {Undefined} \cup {Num(b) : b \in (0 - MaxBatch)..MaxBatch}
LoopInputs ==
  {Obj([vectors |-> Arr([k \in 1..n |-> UpsertVector(k)]), batchSize |-> b]) :
     n \in 0..MaxVectors, b \in AnyBatchSizes}

ResponseOkInLoop == Len(net) < MaxLoop /\ ResponseOk(1, EmptyObj)

NextLoop ==
  \/ \E p \in LoopInputs : Upsert(1, p)
  \/ ResponseOkInLoop

SpecLoop == Init /\ [][NextLoop]_vars

\* query: vector and id each given or not, with or without a sparse vector,
\* a hybrid weight below, in and above [0, 1], and a minimum score
Alphas == {Undefined} \cup {Frac(a, AlphaDen) : a \in (0 - 1)..(AlphaDen + 1)}
MinScores == {Undefined, Num(0), Frac(5, 10)}
Scores == {Frac(0 - 1, 10), Frac(5, 10), Frac(9, 10)}
QueryInputs ==
  {Obj([topK |-> Num(3), vector |-> v, id |-> i, sparseVector |-> sv,
        hybridAlpha |-> a, minScore |-> ms]) :
     v \in {Undefined, Arr(<<Num(2), Num(4)>>)},
     i \in {Undefined, Str("2")},
     sv \in {Undefined, Obj([indices |-> Arr(<<Num(0), Num(1)>>),
                             values |-> Arr(<<Num(10), Num(20)>>)])},
     a \in Alphas, ms \in MinScores}
QueryResponses ==
  {Obj([namespace |-> Str("test"), matches |-> m]) :
     m \in ArrsOver({Obj([id |-> Str("1"), score |-> sc]) : sc \in Scores}, MaxMatches)}

NextQuery ==
  \/ \E p \in QueryInputs : Query(1, p)
  \/ \E d \in QueryResponses : ResponseOk(1, d)
  \/ ResponseError(1, BadRequest)
  \/ NetworkError(1)

SpecQuery == Init /\ [][NextQuery]_vars

\* failed requests: no body, a body that is no JSON, and JSON bodies with
\* and without message, code and details
Absent == [t |-> "absent"]
WithoutAbsent(f) == [k \in {j \in DOMAIN f : f[j] # Absent} |-> f[k]]
ErrorJson ==
  {Null, Str("bad")}
    \cup {Obj(WithoutAbsent([message |-> m, code |-> co, details |-> de])) :
            m \in {Absent, Str(""), Str("bad")},
            co \in {Absent, Num(3)},
            de \in {Absent, Arr(<<>>),
                    Arr(<<Obj([typeUrl |-> Str("u"), value |-> Str("v")])>>)}}
ErrorResponses ==
  {[status |-> st, body |-> b] :
     st \in {400, 500},
     b \in {[kind |-> "none"], [kind |-> "text"]}
            \cup {[kind |-> "json", json |-> j] : j \in ErrorJson}}

NextError ==
  \/ Delete(1, Obj([ids |-> Arr(<<Str("1")>>)]))
  \/ DescribeIndexStats(1, Undefined)
  \/ Update(1, Obj([id |-> Str("1"), values |-> Arr(<<Num(11), Num(11)>>)]))
  \/ Query(1, Obj([topK |-> Num(3), id |-> Str("2")]))
  \/ Upsert(1, Obj([vectors |-> Arr(<<UpsertVector(1)>>)]))
  \/ \E r \in ErrorResponses : ResponseError(1, r)
  \/ ResponseOk(1, OkData(1))
  \/ NetworkError(1)

SpecError == Init /\ [][NextError]_vars

(***************************************************************************)
(* Construction: every config over apiKey, baseUrl and namespace, each      *)
(* absent, empty or a value, in a process with or without the environment  *)
(* variables; a constructed client then makes calls.                       *)
(***************************************************************************)
Configs ==
  {Obj(WithoutAbsent([apiKey |-> k, baseUrl |-> u, namespace |-> ns])) :
     k \in {Absent, Str(""), Str("key")},
     u \in {Absent, Str(""), Str("https://index.pinecone.io")},
     ns \in {Absent, Str("test")}}
Envs ==
  {Obj(WithoutAbsent([PINECONE_API_KEY |-> k, PINECONE_BASE_URL |-> u])) :
     k \in {Absent, Str("envkey")},
     u \in {Absent, Str("https://env.pinecone.io")}}

InitConstruct ==
  /\ client \in {NoClient(env) : env \in Envs}
  /\ calls = [c \in CallIds |-> IdleCall]
  /\ net = <<>>

IndexParams ==
  Obj([environment |-> Str("us-east1-gcp"), name |-> Str("idx"), dimension |-> Num(4)])

NextConstruct ==
  \/ \E config \in Configs : Construct(config)
  \/ client.state = "constructed" /\ Fetch(1, Obj([ids |-> Arr(<<Str("1")>>)]))
  \/ client.state = "constructed" /\ DescribeIndexStats(1, Undefined)
  \/ client.state = "constructed" /\ CreateIndex(1, IndexParams)
  \/ ResponseOk(1, EmptyObj)
  \/ ResponseError(1, BadRequest)
  \/ NetworkError(1)

SpecConstruct == InitConstruct /\ [][NextConstruct]_vars

(***************************************************************************)
(* Two callers of one client, each making calls one after another,         *)
(* interleaved with the other's: caller 1 calls any of the eight           *)
(* operations, caller 2 upsert and createIndex.                            *)
(***************************************************************************)
MaxRequests == 3

\* the vectors of caller c: two, with ids of its own
CallerVectors(c) ==
  Arr([k \in 1..2 |->
         Obj([id |-> Str(ToString(10 * c + k)), values |-> Arr(<<Num(c), Num(k)>>),
              metadata |-> Obj([count |-> Num(k)])])])

\* a delete whose params carry a key of their own named namespace
ClientDeleteInputs ==
  {Obj([ids |-> Arr(<<Str("1")>>), namespace |-> Str("other")])}
ClientIndexInputs ==
  {Obj([environment |-> Str("us-east1-gcp"), name |-> Str("idx"), dimension |-> Num(4)])}

\* the calls caller c may make
ClientCall(c) ==
  \/ c = 1 /\ \E p \in ClientDeleteInputs : Delete(c, p)
  \/ c = 1 /\ DescribeIndexStats(c, Obj([filter |-> Obj([count |-> Num(1)])]))
  \/ c = 1 /\ Fetch(c, Obj([ids |-> Arr(<<Str(ToString(c))>>)]))
  \/ c = 1 /\ Query(c, Obj([topK |-> Num(c), id |-> Str("2")]))
  \/ c = 1 /\ Update(c, Obj([id |-> Str(ToString(c)), values |-> Arr(<<Num(11), Num(11)>>)]))
  \/ Upsert(c, Obj([vectors |-> CallerVectors(c), batchSize |-> Num(1)]))
  \/ \E p \in ClientIndexInputs : CreateIndex(c, p)
  \/ c = 1 /\ \E p \in ClientIndexInputs : DeleteIndex(c, p)

NextClient ==
  \/ \E c \in CallIds : Len(net) < MaxRequests /\ ClientCall(c)
  \/ \E c \in CallIds : Len(net) < MaxRequests /\ ResponseOk(c, OkData(c))
  \/ \E c \in CallIds : ResponseError(c, BadRequest)
  \/ \E c \in CallIds : Return(c)

SpecClient == Init /\ [][NextClient]_vars

(***************************************************************************)
(* fetch: id lists with repeated ids, in either order                      *)
(***************************************************************************)
MaxIds == 3

FetchInputs ==
  {Obj([ids |-> ids]) : ids \in ArrsOver({Str("1"), Str("2")}, MaxIds)}

NextFetch ==
  \/ \E p \in FetchInputs : Fetch(1, p)
  \/ ResponseOk(1, Obj([namespace |-> Str("test"), vectors |-> EmptyObj]))
  \/ ResponseError(1, BadRequest)
  \/ NetworkError(1)

SpecFetch == Init /\ [][NextFetch]_vars

(***************************************************************************)
(* A session against a remote index that stores what vectors/upsert sends  *)
(* and merges the setMetadata of vectors/update key by key, as the index   *)
(* of test/e2e-tests.ts does: upsert, update and fetch of vector '1'.      *)
(***************************************************************************)
MaxSession == 3

RECURSIVE RemoteIndex(_)
\* The vectors of the remote index, by id, after the requests rs: a request
\* takes effect when it completes successfully.
RemoteIndex(rs) ==
  IF rs = <<>> THEN <<>>
  ELSE LET stored == RemoteIndex(SubSeq(rs, 1, Len(rs) - 1))
           r == rs[Len(rs)]
           body == Wire(r.json)
           sent == Elements(Get(body, "vectors"))
           id == Get(body, "id").s
           old == stored[id]
           merged ==
             Spread(old.f,
                    Spread(IF Get(body, "values") # Undefined
                           THEN [k \in {"values"} |-> Get(body, "values")] ELSE <<>>,
                           IF Get(body, "setMetadata") # Undefined
                           THEN [k \in {"metadata"} |->
                                   Obj(Spread(Get(old, "metadata").f,
                                              Get(body, "setMetadata").f))]
                           ELSE <<>>))
       IN IF r.state # "ok" THEN stored
          ELSE IF r.path = "vectors/upsert"
          THEN Spread(stored,
                      [k \in {Get(sent[i], "id").s : i \in DOMAIN sent} |->
                         sent[CHOOSE i \in DOMAIN sent :
                                /\ Get(sent[i], "id").s = k
                                /\ \A j \in DOMAIN sent : Get(sent[j], "id").s = k => j <= i]])
          ELSE IF r.path = "vectors/update" /\ id \in DOMAIN stored
          THEN [stored EXCEPT ![id] = Obj(merged)]
          ELSE stored

\* The remote's answer to the fetch request r, given the requests rs before it.
RemoteFetch(rs, r) ==
  LET stored == RemoteIndex(rs)
      ids == {r.searchParams[i][2].s :
                i \in {j \in DOMAIN r.searchParams : r.searchParams[j][1] = "ids"}}
  IN Obj([namespace |-> IF client.namespace = Undefined THEN Str("") ELSE client.namespace,
          vectors |-> Obj([k \in ids \cap DOMAIN stored |-> stored[k]])])

SeedMetadata ==
  Obj([count |-> Num(1), tags |-> Arr(<<Str("a"), Str("b")>>), approved |-> True])
SessionUpserts ==
  {Obj([vectors |-> Arr(<<Obj([id |-> Str("1"), values |-> Arr(<<Num(1), Num(1)>>),
                               metadata |-> SeedMetadata])>>)])}
SessionUpdates ==
  {Obj([id |-> Str("1"), setMetadata |-> m]) :
     m \in ObjsOver({"count", "tags"}, {Null, Num(11)})}
    \cup {Obj([id |-> Str("1"), values |-> Arr(<<Num(11), Num(11)>>)])}

\* no call is awaiting: the session makes one call at a time
Quiet == \A c \in CallIds : calls[c].pc # "await"

\* The data of the 2xx response to the awaited request of call c.
SessionReply(c) ==
  IF calls[c].op = "fetch"
  THEN RemoteFetch(SubSeq(net, 1, calls[c].req - 1), net[calls[c].req])
  ELSE EmptyObj

NextSession ==
  \/ Quiet /\ Len(net) < MaxSession /\ \E p \in SessionUpserts : Upsert(1, p)
  \/ Quiet /\ Len(net) < MaxSession /\ \E p \in SessionUpdates : Update(2, p)
  \/ Quiet /\ Len(net) < MaxSession /\ Fetch(1, Obj([ids |-> Arr(<<Str("1")>>)]))
  \/ \E c \in CallIds : ResponseOk(c, SessionReply(c))
  \/ \E c \in CallIds : ResponseError(c, BadRequest)
  \/ \E c \in CallIds : Return(c)

SpecSession == Init /\ [][NextSession]_vars

(***************************************************************************)
(* The sanitizer as the operations apply it                                *)
(***************************************************************************)
\* The objects that hold the sanitized keys in the awaited (or failed) request
\* of call c: the caller's object at the call, the object posted, and the
\* caller's object now.
SanitizedObjects(c) ==
  LET call == calls[c]
      json == net[call.req].json
  IN IF call.req = 0 \/ call.pc \notin {"await", "rejected"} THEN {}
     ELSE IF call.op = "upsert"
     THEN {[before |-> Get(call.arg, "vectors").e[call.i + k],
            posted |-> Get(json, "vectors").e[k],
            caller |-> Get(call.params, "vectors").e[call.i + k]] :
             k \in DOMAIN Get(json, "vectors").e}
     ELSE {[before |-> call.arg, posted |-> json, caller |-> call.params]}

\* Every application of removeNullValuesFromObject by a request in flight or
\* failed: its argument, its result, and the caller's value afterwards.
SanitizerRuns ==
  {[before |-> Get(o.before, k), result |-> Get(o.posted, k), caller |-> Get(o.caller, k)] :
     o \in UNION {SanitizedObjects(c) : c \in CallIds}, k \in SanitizedKeys}

RECURSIVE NoNullKeys(_)
\* no key of the mapping v, or of a mapping nested in it, has the value null
NoNullKeys(v) ==
  v.t = "obj" => \A k \in DOMAIN v.f : v.f[k] # Null /\ NoNullKeys(v.f[k])

RECURSIVE NullFree(_)
\* v holds no null: no null-valued key and no null element, at any depth
NullFree(v) ==
  CASE v.t = "null" -> FALSE
    [] v.t = "obj" -> \A k \in DOMAIN v.f : NullFree(v.f[k])
    [] v.t = "arr" -> \A i \in DOMAIN v.e : NullFree(v.e[i])
    [] OTHER -> TRUE

RECURSIVE Preserved(_, _)
\* out keeps exactly the keys of the mapping in whose value is not null; a
\* value that holds no null is unchanged, and a nested mapping is preserved
\* in the same sense
Preserved(in, out) ==
  /\ out.t = "obj"
  /\ DOMAIN out.f = {k \in DOMAIN in.f : in.f[k] # Null}
  /\ \A k \in DOMAIN out.f :
       /\ NullFree(in.f[k]) => out.f[k] = in.f[k]
       /\ in.f[k].t = "obj" => Preserved(in.f[k], out.f[k])

C5_ArraysVerbatim ==
  \A run \in SanitizerRuns :
    run.before.t = "obj" =>
      \A k \in DOMAIN run.before.f :
        run.before.f[k].t = "arr" =>
          /\ Get(run.result, k) = run.before.f[k]
          /\ Get(run.caller, k) = run.before.f[k]

\* C6: in every transmitted body the filter, the setMetadata and each
\* vector's metadata hold no null at any depth.
C6_NoNullTransmitted ==
  \A j \in DOMAIN net :
    LET body == Wire(net[j].json)
    IN /\ NullFree(Get(body, "filter"))
       /\ NullFree(Get(body, "setMetadata"))
       /\ \A k \in DOMAIN Elements(Get(body, "vectors")) :
            NullFree(Get(Elements(Get(body, "vectors"))[k], "metadata"))

\* C11: removeNullValues changes only metadata, filter and setMetadata:
\* every other top-level field of a payload (of each vector, for upsert) is
\* in the request body with the value the caller gave, a null value
\* included, and the caller's own field is left as it was; the body has no
\* field besides the payload's and namespace.
C11_OtherFieldsPassThrough ==
  \A o \in UNION {SanitizedObjects(c) : c \in CallIds} :
    o.before.t = "obj" =>
      /\ \A k \in DOMAIN o.before.f \ SanitizedKeys :
           /\ k \in DOMAIN o.posted.f
           /\ o.posted.f[k] = o.before.f[k]
           /\ Wire(o.posted).f[k] = o.before.f[k]
           /\ Get(o.caller, k) = o.before.f[k]
      /\ DOMAIN Wire(o.posted).f \subseteq DOMAIN o.before.f \cup {"namespace"}

\* a delete with deleteAll: null and a filter with a null-valued key has
\* posted deleteAll: null and an empty filter
C11_Witness ==
  \E o \in UNION {SanitizedObjects(c) : c \in CallIds} :
    /\ Get(o.before, "deleteAll") = Null
    /\ Get(o.before, "filter") = Obj([count |-> Null])
    /\ Get(Wire(o.posted), "deleteAll") = Null
    /\ Get(Wire(o.posted), "filter") = EmptyObj

\* C12: sanitizing a sanitized value gives the same value: for the result r
\* of removeNullValuesFromObject, removeNullValuesFromObject(r) = r, and for
\* the result p of removeNullValues, removeNullValues(p) = p.
C12_Idempotent ==
  /\ \A run \in SanitizerRuns :
       /\ removeNullValuesFromObject(run.result) = run.result
       /\ removeNullValuesFromObject(run.caller) = run.caller
  /\ \A o \in UNION {SanitizedObjects(c) : c \in CallIds} :
       /\ removeNullValues(o.posted) = o.posted
       /\ Wire(removeNullValues(o.posted)) = Wire(o.posted)

\* a mapping with a null-valued key in a nested mapping has been sanitized,
\* and the result is not the argument
C12_Witness ==
  \E run \in SanitizerRuns :
    /\ run.before.t = "obj"
    /\ \E k \in DOMAIN run.before.f :
         /\ run.before.f[k].t = "obj"
         /\ \E j \in DOMAIN run.before.f[k].f : run.before.f[k].f[j] = Null
    /\ run.result # run.before
    /\ removeNullValuesFromObject(run.result) = run.result

\* the metadata the remote holds for vector id after the first n requests
RemoteMetadata(n, id) ==
  LET stored == RemoteIndex(SubSeq(net, 1, n))
  IN IF id \in DOMAIN stored THEN Get(stored[id], "metadata") ELSE Undefined

\* C13: an update whose setMetadata has a null-valued field does not fail
\* before its request, and fails only if the request does; the setMetadata
\* transmitted has exactly the fields whose value is not null, with their
\* values; once the update has succeeded the remote's metadata has the
\* non-null fields of setMetadata at their new values and every other field,
\* the null-valued ones included, at its prior value, and this is the
\* metadata a fetch issued right after the update returns.
C13_NullSetMetadataIgnored ==
  /\ \A c \in CallIds :
       LET call == calls[c]
           given == Get(call.arg, "setMetadata")
           sent == Get(Wire(net[call.req].json), "setMetadata")
           id == Get(call.arg, "id").s
           prior == RemoteMetadata(call.req - 1, id)
           now == RemoteMetadata(call.req, id)
       IN (call.op = "update" /\ given.t = "obj") =>
            /\ call.req # 0
            /\ call.pc = "rejected" => net[call.req].state = "failed"
            /\ sent.t = "obj"
            /\ DOMAIN sent.f = {k \in DOMAIN given.f : given.f[k] # Null}
            /\ \A k \in DOMAIN sent.f : sent.f[k] = given.f[k]
            /\ (call.pc = "resolved" /\ prior # Undefined) =>
                 /\ DOMAIN now.f = DOMAIN prior.f \cup DOMAIN sent.f
                 /\ \A k \in DOMAIN now.f :
                      now.f[k] = IF Get(given, k) \notin {Undefined, Null}
                                 THEN given.f[k] ELSE prior.f[k]
  /\ \A c \in CallIds :
       LET call == calls[c]
           id == Get(call.arg, "ids").e[1].s
       IN (call.op = "fetch" /\ call.pc = "resolved"
             /\ RemoteMetadata(call.req, id) # Undefined) =>
            Get(Get(Get(call.result, "vectors"), id), "metadata")
              = RemoteMetadata(call.req - 1, id)

\* upsert of vector '1', then update({id: '1', setMetadata: {count: 11,
\* tags: null}}), then fetch: count is 11, tags and approved are as upserted
C13_Witness ==
  /\ Len(net) = 3
  /\ net[1].path = "vectors/upsert" /\ net[1].state = "ok"
  /\ net[2].path = "vectors/update" /\ net[2].state = "ok"
  /\ calls[2].op = "update" /\ calls[2].pc = "resolved" /\ calls[2].req = 2
  /\ Get(calls[2].arg, "setMetadata") = Obj([count |-> Num(11), tags |-> Null])
  /\ calls[1].op = "fetch" /\ calls[1].pc = "resolved" /\ calls[1].req = 3
  /\ Get(Get(Get(calls[1].result, "vectors"), "1"), "metadata")
       = Obj([count |-> Num(11), tags |-> Arr(<<Str("a"), Str("b")>>),
              approved |-> True])

(***************************************************************************)
(* construction                                                            *)
(***************************************************************************)
\* the value construction resolves for a setting: the config's when given
\* (a non-empty string), the environment variable's otherwise
Resolved(key, variable) ==
  IF Get(client.config, key) \notin {Undefined, Str("")} THEN Get(client.config, key)
  ELSE Get(client.env, variable)

C15_EmptyBaseUrlAccepted ==
  (/\ client.state # "none"
   /\ Get(client.config, "apiKey") = Str("key")
   /\ Get(client.config, "baseUrl") = Str("")
   /\ Get(client.env, "PINECONE_BASE_URL") = Undefined)
    => (client.state = "constructed" /\ client.baseUrl = "")

(***************************************************************************)
(* upsert                                                                  *)
(***************************************************************************)
\* the positions in net of the requests call c issued
RequestsOf(c) == {j \in DOMAIN net : net[j].call = c}

\* the requests call c issued, in issue order
RequestSeqOf(c) == SelectSeq(net, LAMBDA r : r.call = c)

RECURSIVE SentVectors(_)
\* the vectors of the requests rs, concatenated in issue order
SentVectors(rs) ==
  IF rs = <<>> THEN <<>>
  ELSE Elements(Get(Head(rs).json, "vectors")) \o SentVectors(Tail(rs))

C2_Sequential ==
  \A c \in CallIds :
    calls[c].op = "upsert" =>
      \A j \in RequestsOf(c) :
        /\ net[j].state # "ok" => \A m \in RequestsOf(c) : m <= j
        /\ net[j].state = "failed" =>
             /\ calls[c].pc = "rejected"
             /\ calls[c].error = net[j].thrown
             /\ calls[c].error # NoError
        /\ net[j].state = "inflight" => calls[c].pc = "await"
        /\ net[j].method = "POST" /\ net[j].path = "vectors/upsert"

\* the second of three chunks has failed: the call is rejected, the first
\* chunk stays sent and the third was never issued
C2_Witness ==
  \E c \in CallIds :
    /\ calls[c].op = "upsert" /\ calls[c].pc = "rejected"
    /\ Len(Elements(Get(calls[c].arg, "vectors"))) = 120
    /\ Get(calls[c].arg, "batchSize") = Undefined
    /\ Len(RequestSeqOf(c)) = 2
    /\ RequestSeqOf(c)[1].state = "ok"
    /\ RequestSeqOf(c)[2].state = "failed"

(***************************************************************************)
(* query                                                                   *)
(***************************************************************************)
\* the call failed validation: it threw an Error before any request
FailedValidation(c) ==
  /\ calls[c].pc = "rejected"
  /\ calls[c].error.name = "Error"
  /\ RequestsOf(c) = {}

\* C3: a query with neither vector nor id, or with both, fails with a
\* validation error and issues no request.
C3_ExactlyOneOfVectorId ==
  \A c \in CallIds :
    (/\ calls[c].op = "query"
     /\ (Get(calls[c].arg, "vector") = Undefined) = (Get(calls[c].arg, "id") = Undefined))
      => FailedValidation(c)

\* the numbers of array a, each times the fraction p/q
Scaled(a, p, q) == [i \in DOMAIN a.e |-> Frac(a.e[i].n * p, a.e[i].d * q)]

\* the arrays a and b hold the same numbers
SameNumbers(a, b) ==
  /\ a.t = "arr" /\ Len(a.e) = Len(b)
  /\ \A i \in DOMAIN b : a.e[i].t = "num" /\ a.e[i].n * b[i].d = b[i].n * a.e[i].d

\* C7: a query with hybridAlpha given (0 included) and vector or
\* sparseVector missing fails validation without a request; with both
\* present its request carries the vector weighted by alpha and the sparse
\* values weighted by 1 - alpha; no query body carries hybridAlpha or minScore.
C7_HybridQuery ==
  \A c \in CallIds :
    LET call == calls[c]
        alpha == Get(call.arg, "hybridAlpha")
        vector == Get(call.arg, "vector")
        sparseVector == Get(call.arg, "sparseVector")
    IN call.op = "query" =>
         /\ (alpha # Undefined /\ (vector = Undefined \/ sparseVector = Undefined))
              => FailedValidation(c)
         /\ (alpha # Undefined /\ vector # Undefined /\ sparseVector # Undefined
               /\ call.req # 0) =>
              LET body == Wire(net[call.req].json)
              IN /\ SameNumbers(Get(body, "vector"), Scaled(vector, alpha.n, alpha.d))
                 /\ Get(Get(body, "sparseVector"), "indices") = Get(sparseVector, "indices")
                 /\ SameNumbers(Get(Get(body, "sparseVector"), "values"),
                                Scaled(Get(sparseVector, "values"),
                                       alpha.d - alpha.n, alpha.d))
         /\ \A j \in RequestsOf(c) :
              /\ net[j].path = "query"
              /\ {"hybridAlpha", "minScore"} \cap DOMAIN net[j].json.f = {}

\* a hybrid query with weight 0 and no sparse vector has been refused
C7_Witness ==
  \E c \in CallIds :
    /\ calls[c].op = "query"
    /\ Get(calls[c].arg, "hybridAlpha") = Frac(0, AlphaDen)
    /\ Get(calls[c].arg, "vector") # Undefined
    /\ Get(calls[c].arg, "sparseVector") = Undefined
    /\ FailedValidation(c)

\* C8: hybridScoreNorm throws exactly when alpha < 0 or alpha > 1; otherwise
\* the dense result has the length of dense and components dense[i] * alpha,
\* the sparse result has the indices of sparse and values
\* sparse.values[i] * (1 - alpha); dense and sparse are left unchanged.
C8_HybridScoreNorm ==
  \A c \in CallIds :
    LET call == calls[c]
        alpha == Get(call.arg, "hybridAlpha")
        dense == Get(call.arg, "vector")
        sparse == Get(call.arg, "sparseVector")
    IN (call.op = "query" /\ alpha # Undefined /\ dense # Undefined /\ sparse # Undefined) =>
         /\ (FailedValidation(c) /\ call.error.message = "Alpha must be between 0 and 1")
              <=> (alpha.n < 0 \/ alpha.n > alpha.d)
         /\ call.req # 0 =>
              LET json == net[call.req].json
              IN /\ SameNumbers(Get(json, "vector"), Scaled(dense, alpha.n, alpha.d))
                 /\ Get(Get(json, "sparseVector"), "indices") = Get(sparse, "indices")
                 /\ SameNumbers(Get(Get(json, "sparseVector"), "values"),
                                Scaled(Get(sparse, "values"), alpha.d - alpha.n, alpha.d))
         /\ Get(call.params, "vector") = dense
         /\ Get(call.params, "sparseVector") = sparse

\* alpha = 1/2 has weighted dense [2, 4] and sparse values [10, 20]
C8_Witness ==
  \E c \in CallIds :
    /\ calls[c].op = "query" /\ calls[c].req # 0
    /\ Get(calls[c].arg, "hybridAlpha") = Frac(1, 2)
    /\ Get(calls[c].arg, "vector") = Arr(<<Num(2), Num(4)>>)
    /\ SameNumbers(Get(net[calls[c].req].json, "vector"), <<Num(1), Num(2)>>)
    /\ SameNumbers(Get(Get(net[calls[c].req].json, "sparseVector"), "values"),
                   <<Num(5), Num(10)>>)

\* C9: a query with a numeric minScore (0 included) returns the matches of
\* the response whose score is at least minScore, in the response's order,
\* and the other fields of the response unchanged, after exactly one
\* request; without minScore it returns the response as it is.
C9_MinScore ==
  \A c \in CallIds :
    LET call == calls[c]
        minScore == Get(call.arg, "minScore")
        reply == net[call.req].reply
    IN (call.op = "query" /\ call.pc = "resolved") =>
         /\ Cardinality(RequestsOf(c)) = 1
         /\ minScore = Undefined => call.result = reply
         /\ minScore.t = "num" =>
              /\ DOMAIN call.result.f = DOMAIN reply.f
              /\ \A k \in DOMAIN reply.f \ {"matches"} : call.result.f[k] = reply.f[k]
              /\ Get(call.result, "matches") =
                   Arr(SelectSeq(Get(reply, "matches").e,
                                 LAMBDA r : r.f.score.n * minScore.d
                                              >= minScore.n * r.f.score.d))

\* scores 0.9, -0.1, 0.5 filtered by minScore 0.5: 0.9 and 0.5 are returned
C9_Witness ==
  \E c \in CallIds :
    /\ calls[c].op = "query" /\ calls[c].pc = "resolved"
    /\ Get(calls[c].arg, "minScore") = Frac(5, 10)
    /\ Get(net[calls[c].req].reply, "matches")
         = Arr(<<Obj([id |-> Str("1"), score |-> Frac(9, 10)]),
                 Obj([id |-> Str("1"), score |-> Frac(0 - 1, 10)]),
                 Obj([id |-> Str("1"), score |-> Frac(5, 10)])>>)
    /\ Get(calls[c].result, "matches")
         = Arr(<<Obj([id |-> Str("1"), score |-> Frac(9, 10)]),
                 Obj([id |-> Str("1"), score |-> Frac(5, 10)])>>)

(***************************************************************************)
(* error translation                                                       *)
(***************************************************************************)
\* the error call c rejected with is the typed error for the response of its
\* failed request
TypedError(c) ==
  LET response == net[calls[c].req].response
      error == calls[c].error
  IN /\ error.name = "PineconeError"
     /\ error.message = Get(response.body.json, "message")
     /\ error.code = Get(response.body.json, "code")
     /\ error.details = Get(response.body.json, "details")
     /\ error.status = response.status
     /\ error.cause = HTTPError(response)

\* call c was rejected because its request got a non-2xx response
FailedByResponse(c) ==
  /\ calls[c].pc = "rejected" /\ calls[c].req # 0
  /\ net[calls[c].req].response # NoResponse

\* C10 as stated: the typed error is raised if and only if the body parses
\* as JSON and contains a message field; otherwise the transport error.
C10_TypedIffMessageField ==
  \A c \in CallIds :
    FailedByResponse(c) =>
      LET response == net[calls[c].req].response
      IN IF /\ response.body.kind = "json" /\ response.body.json.t = "obj"
            /\ "message" \in DOMAIN response.body.json.f
         THEN TypedError(c)
         ELSE calls[c].error = HTTPError(response)

\* C10, amended: the typed error is raised if and only if the body parses
\* as JSON and its message field is truthy (a non-empty string); in every
\* other case the transport error is raised unchanged.
C10_TypedIffMessageTruthy ==
  \A c \in CallIds :
    FailedByResponse(c) =>
      LET response == net[calls[c].req].response
      IN IF /\ response.body.kind = "json"
            /\ Get(response.body.json, "message").t = "str"
            /\ Get(response.body.json, "message").s # ""
         THEN TypedError(c)
         ELSE calls[c].error = HTTPError(response)

\* a response with message, code and details has been translated
C10_Witness ==
  \E c \in CallIds :
    /\ FailedByResponse(c)
    /\ TypedError(c)
    /\ calls[c].error.code = Num(3)
    /\ calls[c].error.details # Undefined

(***************************************************************************)
(* the client and its requests                                             *)
(***************************************************************************)
DataPaths ==
  {"vectors/delete", "describe_index_stats", "vectors/fetch", "query",
   "vectors/update", "vectors/upsert"}

\* C16: on a client constructed with a namespace every request of delete,
\* describeIndexStats, fetch, query, update and upsert carries that
\* namespace: in the JSON body of a POST, as a search parameter of fetch.
C16_NamespaceCarried ==
  \A j \in DOMAIN net :
    (client.namespace # Undefined /\ net[j].path \in DataPaths) =>
      IF net[j].method = "GET"
      THEN \E i \in DOMAIN net[j].searchParams :
             net[j].searchParams[i] = <<"namespace", client.namespace>>
      ELSE Get(Wire(net[j].json), "namespace") = client.namespace

\* the last k elements of s
Last(s, k) == SubSeq(s, Len(s) - k + 1, Len(s))

\* the request call c awaits or awaited last is built from the params of
\* that call and the client's fields alone
BuiltFromOwnParams(c) ==
  LET call == calls[c]
      r == net[call.req]
      input == Elements(Get(call.arg, "vectors"))
      upto == IF call.i + call.batchSize < Len(input) THEN call.i + call.batchSize
              ELSE Len(input)
      chunks == (upto + call.batchSize - 1) \div call.batchSize
      sent == SentVectors(Last(RequestSeqOf(c), chunks))
  IN /\ r.call = c
     /\ r.apiKey = client.apiKey
     /\ CASE call.op \in {"delete", "update"} -> r.json = NamespacedBody(call.arg)
          [] call.op = "query" -> r.json = NamespacedBody(QueryRestParams(call.arg))
          [] call.op = "describeIndexStats" -> r.json = removeNullValues(call.arg)
          [] call.op = "fetch" ->
               r.searchParams
                 = (IF client.namespace # Undefined
                    THEN <<<<"namespace", client.namespace>>>> ELSE <<>>)
                     \o [i \in DOMAIN Get(call.arg, "ids").e |->
                           <<"ids", Get(call.arg, "ids").e[i]>>]
          [] call.op = "createIndex" ->
               r.json = Obj(Rest(call.arg.f, {"environment"}))
          [] call.op = "deleteIndex" ->
               r.path = "databases/" \o Get(call.arg, "name").s
          [] call.op = "upsert" ->
               /\ Len(sent) = upto
               /\ \A k \in 1..upto :
                    /\ Get(sent[k], "id") = Get(input[k], "id")
                    /\ Get(sent[k], "values") = Get(input[k], "values")
                    /\ Wire(Get(sent[k], "metadata")) = Wire(Get(input[k], "metadata"))

\* C17: no call changes apiKey, baseUrl or namespace of the client, failed
\* calls included, and with calls of two callers interleaved every request
\* is built from the params of its own call: an upsert's requests carry its
\* own vectors, in its own input order, whatever the other caller does.
C17_NoSharedState ==
  /\ [][client' = client]_vars
  /\ [](\A c \in CallIds : calls[c].req # 0 => BuiltFromOwnParams(c))

\* two upserts interleaved: caller 1 has sent its first chunk, caller 2 its
\* first, then caller 1 its second
C17_Witness ==
  /\ Len(net) = 3
  /\ calls[1].op = "upsert" /\ calls[2].op = "upsert"
  /\ net[1].call = 1 /\ net[2].call = 2 /\ net[3].call = 1
  /\ Get(Get(net[1].json, "vectors").e[1], "id") = Str("11")
  /\ Get(Get(net[2].json, "vectors").e[1], "id") = Str("21")
  /\ Get(Get(net[3].json, "vectors").e[1], "id") = Str("12")

\* C18: fetch issues one GET of vectors/fetch without a body, whose search
\* parameters are the namespace, if the client has one, followed by one ids
\* entry per element of params.ids, in the order and with the multiplicity
\* of params.ids.
C18_FetchSearchParams ==
  \A c \in CallIds :
    LET call == calls[c]
        r == net[call.req]
        ids == Get(call.arg, "ids").e
        lead == IF client.namespace = Undefined THEN 0 ELSE 1
    IN call.op = "fetch" =>
         /\ call.req # 0
         /\ Cardinality(RequestsOf(c)) = 1
         /\ r.method = "GET" /\ r.path = "vectors/fetch" /\ r.json = Undefined
         /\ r.prefixUrl = client.baseUrl
         /\ Len(r.searchParams) = lead + Len(ids)
         /\ lead = 1 => r.searchParams[1] = <<"namespace", client.namespace>>
         /\ \A i \in DOMAIN ids : r.searchParams[lead + i] = <<"ids", ids[i]>>

\* fetch({ids: ['2', '1', '2']}) on a client with namespace 'test'
C18_Witness ==
  \E c \in CallIds :
    /\ calls[c].op = "fetch" /\ calls[c].pc = "resolved"
    /\ Get(calls[c].arg, "ids") = Arr(<<Str("2"), Str("1"), Str("2")>>)
    /\ net[calls[c].req].searchParams
         = <<(<<"namespace", Str("test")>>), (<<"ids", Str("2")>>),
             (<<"ids", Str("1")>>), (<<"ids", Str("2")>>)>>

\* C19: a request of createIndex or deleteIndex goes to the controller host
\* of the call's environment, and environment is not in its body; every
\* request of the six other operations goes to the baseUrl the client was
\* constructed with, also after createIndex and deleteIndex calls.
C19_ManagementHost ==
  /\ \A c \in CallIds :
       LET call == calls[c]
           r == net[call.req]
       IN call.op \in {"createIndex", "deleteIndex"} =>
            /\ call.req # 0
            /\ r.prefixUrl
                 = "https://controller." \o Get(call.arg, "environment").s \o ".pinecone.io"
            /\ r.prefixUrl # client.baseUrl
            /\ call.op = "createIndex" =>
                 /\ r.method = "POST" /\ r.path = "databases"
                 /\ DOMAIN r.json.f = DOMAIN call.arg.f \ {"environment"}
                 /\ \A k \in DOMAIN r.json.f : r.json.f[k] = call.arg.f[k]
            /\ call.op = "deleteIndex" =>
                 /\ r.method = "DELETE" /\ r.json = Undefined
                 /\ r.path = "databases/" \o Get(call.arg, "name").s
  /\ \A j \in DOMAIN net :
       IF net[j].path \in DataPaths
       THEN net[j].prefixUrl = "https://index.pinecone.io"
       ELSE net[j].prefixUrl = "https://controller.us-east1-gcp.pinecone.io"

\* a createIndex has completed and a later fetch went to the client's baseUrl
C19_Witness ==
  \E j, k \in DOMAIN net :
    /\ j < k
    /\ net[j].path = "databases" /\ net[j].method = "POST" /\ net[j].state = "ok"
    /\ net[j].prefixUrl = "https://controller.us-east1-gcp.pinecone.io"
    /\ net[k].path = "vectors/fetch"
    /\ net[k].prefixUrl = "https://index.pinecone.io"

\* C20: for every vectors list and every integer batchSize, an upsert whose
\* requests all complete comes to its end after finitely many requests:
\* every completed request moves the loop index on toward the end of the
\* list, and there are never more requests than vectors; a batchSize of 0 is
\* the default 50.
C20_UpsertTerminates ==
  /\ [][\A c \in CallIds :
          (calls[c].op = "upsert" /\ calls'[c].op = "upsert" /\ calls'[c] # calls[c]) =>
            calls'[c].i > calls[c].i]_vars
  /\ [](\A c \in CallIds :
          calls[c].op = "upsert" =>
            /\ Len(RequestSeqOf(c)) <= Len(Elements(Get(calls[c].arg, "vectors")))
            /\ Get(calls[c].arg, "batchSize") = Num(0) => calls[c].batchSize = 50)

====
